---- MODULE Spec2Model ----
(***************************************************************************)
(* A model of sexpr-fmt: the recursive-descent parser Sexpr::parse, the    *)
(* pretty-printer Sexpr::write_helper and the driver main.                 *)
(*                                                                         *)
(* Text is a sequence of bytes, as a Rust str is: an ASCII character is a  *)
(* one-character string, and the two bytes of a two-byte character (e with *)
(* acute, U+00E9) are written "C3" and "A9".  A node is a record           *)
(*   [kind |-> "Atom", text |-> <<chars>>, complexity |-> 0]               *)
(*   [kind |-> "Compound", head |-> node, args |-> <<nodes>>,              *)
(*    complexity |-> n]                                                    *)
(***************************************************************************)
EXTENDS Integers, Sequences, FiniteSets, TLC

(***************************************************************************)
(* Bounds of the model.                                                    *)
(***************************************************************************)
\* longest raw input, in lexical pieces
MaxLen == 6
\* largest generated well-formed input, in nodes
MaxNodes == 6
\* largest complexity_threshold given on the command line
MaxThreshold == 2
\* latest write_str call that the sink may reject
MaxFailAt == 4

(***************************************************************************)
(* Characters and text.                                                    *)
(***************************************************************************)
Str_forall == <<"f", "o", "r", "a", "l", "l">>
Str_exists == <<"e", "x", "i", "s", "t", "s">>

\* a whitespace test that knows the space only
is_whitespace_space_only(ch) == ch = " "

\* char::is_whitespace, on the characters of the model
is_whitespace(ch) == ch \in {" ", "\n", "\t"}

RECURSIVE trim_start(_)
trim_start(s) ==
    IF s = <<>> \/ ~is_whitespace(Head(s)) THEN s ELSE trim_start(Tail(s))

RECURSIVE trim_end(_)
trim_end(s) ==
    IF s = <<>> \/ ~is_whitespace(s[Len(s)]) THEN s
    ELSE trim_end(SubSeq(s, 1, Len(s) - 1))

\* a trim that leaves the leading whitespace in place
trim_end_only(s) == trim_end(s)

\* str::trim
trim(s) == trim_end(trim_start(s))

\* the bytes that continue a multi-byte character
ContinuationBytes == {"A9"}

\* str::is_char_boundary
is_char_boundary(s, index) ==
    \/ index = 0
    \/ index = Len(s)
    \/ index < Len(s) /\ s[index + 1] \notin ContinuationBytes

\* str::split_at, where mid is a char boundary (it panics where it is not)
split_at(s, mid) == <<SubSeq(s, 1, mid), SubSeq(s, mid + 1, Len(s))>>

\* is_ident, applied to the one-character slice input[idx..idx+1]
is_ident(ch) == ch # "(" /\ ch # ")" /\ ~is_whitespace(ch)

max(a, b) == IF a >= b THEN a ELSE b

(***************************************************************************)
(* The tree.                                                               *)
(***************************************************************************)
Atom(text) == [kind |-> "Atom", text |-> text, complexity |-> 0]

Compound(head, args, complexity) ==
    [kind |-> "Compound", head |-> head, args |-> args, complexity |-> complexity]

blank == Atom(<<>>)

is_named(self, text) == self.kind = "Atom" /\ self.text = text

is_blank(self) == IF self.kind = "Atom" THEN self.text = <<>> ELSE FALSE

(***************************************************************************)
(* The parser.                                                             *)
(***************************************************************************)
\* the error texts (the back quotes around the parenthesis are left out)
UnclosedInput == "unclosed sexpr"
UnterminatedCompound == "malformed sexpr: expected ), found EOI"
MalformedCompound == "malformed sexpr: expected ), found something else"
UnexpectedEnd == "unexpected end of input"
\* not a ParseError: the panic of split_at and of slicing off a char boundary,
\* which unwinds through every caller as ? passes an error on
Panic == "panic: byte index is not a char boundary"

Ok(sexpr, remaining) == [ok |-> TRUE, sexpr |-> sexpr, rem |-> remaining]
Err(msg) == [ok |-> FALSE, err |-> msg]

\* the atom scan: while idx < input.len() && is_ident(&input[idx..idx+1]);
\* the result is the final idx, or -1 when the slice panics
RECURSIVE scan_ident(_, _)
scan_ident(input, idx) ==
    IF idx < Len(input)
    THEN IF ~is_char_boundary(input, idx + 1) THEN -1
         ELSE IF is_ident(input[idx + 1]) THEN scan_ident(input, idx + 1)
         ELSE idx
    ELSE idx

RECURSIVE parse_helper(_)
RECURSIVE parse_args(_, _, _)

\* an argument loop that keeps the last argument's complexity, not the maximum
RECURSIVE parse_args_last(_, _, _)
parse_args_last(remaining, args, complexity) ==
    IF remaining = <<>>
    THEN [ok |-> TRUE, args |-> args, complexity |-> complexity, rem |-> remaining]
    ELSE LET r == parse_helper(remaining) IN
         IF ~r.ok THEN r
         ELSE IF is_blank(r.sexpr)
         THEN [ok |-> TRUE, args |-> args, complexity |-> complexity,
               rem |-> remaining]
         ELSE parse_args_last(r.rem, Append(args, r.sexpr), r.sexpr.complexity)

\* the argument loop of a compound: while !remaining.is_empty() { ... }
parse_args(remaining, args, complexity) ==
    IF remaining = <<>>
    THEN [ok |-> TRUE, args |-> args, complexity |-> complexity, rem |-> remaining]
    ELSE LET r == parse_helper(remaining) IN
         IF ~r.ok THEN r
         ELSE IF is_blank(r.sexpr)
         THEN [ok |-> TRUE, args |-> args, complexity |-> complexity,
               rem |-> remaining]
         ELSE parse_args(r.rem, Append(args, r.sexpr),
                         max(complexity, r.sexpr.complexity))

\* the closing-paren check after the argument loop
close_compound(first, loop) ==
    LET remaining == trim(loop.rem) IN
    IF remaining = <<>> THEN Err(UnterminatedCompound)
    ELSE LET sp == split_at(remaining, 1) IN
         IF sp[1] # <<")">> THEN Err(MalformedCompound)
         ELSE Ok(Compound(first, loop.args, loop.complexity + 1), sp[2])

parse_helper(input0) ==
    LET input == trim(input0) IN
    IF input = <<>> THEN Ok(blank, <<>>)
    ELSE IF ~is_char_boundary(input, 1) THEN Err(Panic)
    ELSE LET sp == split_at(input, 1)
             head == sp[1]
             remaining == sp[2]
         IN
         IF head = <<"(">>
         THEN LET r1 == parse_helper(remaining) IN
              IF ~r1.ok THEN r1
              ELSE LET loop == parse_args(r1.rem, <<>>, r1.sexpr.complexity) IN
                   IF ~loop.ok THEN loop
                   ELSE close_compound(r1.sexpr, loop)
         ELSE IF head = <<>> THEN Err(UnexpectedEnd)
         ELSE LET idx == scan_ident(input, 0)
                  at == split_at(input, idx)
              IN IF idx < 0 THEN Err(Panic) ELSE Ok(Atom(at[1]), at[2])

parse(input) ==
    LET r == parse_helper(input) IN
    IF ~r.ok THEN r
    ELSE IF r.rem # <<>> THEN Err(UnclosedInput)
    ELSE [ok |-> TRUE, sexpr |-> r.sexpr]

(***************************************************************************)
(* The output sink.  out is the text written so far, attempts the number   *)
(* of non-empty write_str calls made, fail_at the call the sink rejects    *)
(* (0: none) and log a history of the layout steps taken, kept only to     *)
(* state properties of the layout.                                         *)
(***************************************************************************)
ToWriteFmt(fail_at) ==
    [out |-> <<>>, attempts |-> 0, fail_at |-> fail_at, log |-> <<>>]

FmtOk(f) == [ok |-> TRUE, f |-> f]
FmtErr(f) == [ok |-> FALSE, f |-> f]

\* ToWriteFmt::write_str: write_all(s.as_bytes()).map_err(|_| fmt::Error);
\* write_all of an empty buffer returns Ok without touching the sink
write_str(f, s) ==
    IF s = <<>> THEN FmtOk(f)
    ELSE LET g == [f EXCEPT !.attempts = @ + 1] IN
         IF g.attempts = f.fail_at THEN FmtErr(g)
         ELSE FmtOk([g EXCEPT !.out = @ \o s])

\* history only: record a layout step at the current end of the output
note(f, ev, self, args) ==
    [f EXCEPT !.log = Append(@, [ev |-> ev, pos |-> Len(f.out),
                                 depth |-> args.depth,
                                 node |-> self,
                                 inline |-> self.complexity <= args.complexity_threshold])]

(***************************************************************************)
(* The renderer.                                                           *)
(***************************************************************************)
FormatArgs_new ==
    [depth |-> 0, complexity_threshold |-> 1, short_quantifiers |-> FALSE]

FormatArgs_from(cmd_args) ==
    [depth |-> 0, complexity_threshold |-> cmd_args.complexity_threshold,
     short_quantifiers |-> cmd_args.short_quantifiers]

with_depth(args, new_depth) ==
    [depth |-> new_depth, complexity_threshold |-> args.complexity_threshold,
     short_quantifiers |-> args.short_quantifiers]

\* a tab that gives no indentation
tab_none(args) == <<>>

\* FormatArgs::tab: repeat(' ').take(self.depth).collect()
tab(args) == [i \in 1..args.depth |-> " "]

\* the test that puts the first subformula on the head's line
\* (&& binds tighter than ||)
glues_first(args, head) ==
    (args.short_quantifiers /\ is_named(head, Str_forall))
        \/ is_named(head, Str_exists)

RECURSIVE write_helper(_, _, _)
RECURSIVE write_rest(_, _, _, _)

\* impl fmt::Display for Sexpr: the head of a compound is written with {}
fmt(self, f) == write_helper(self, f, FormatArgs_new)

\* a loop that drops the result of writing the separator (no ? on it)
RECURSIVE write_rest_unchecked(_, _, _, _)
write_rest_unchecked(self, i, f, args) ==
    IF i > Len(self.args) THEN FmtOk(f)
    ELSE LET inline == self.complexity <= args.complexity_threshold
             new_depth == IF inline THEN 0 ELSE args.depth + 4
             sep == IF inline THEN <<" ">> ELSE <<"\n", " ", " ", " ", " ">>
             line_prefix == IF inline THEN <<>> ELSE tab(args)
             r1 == write_str(f, sep)
             r2 == write_str(r1.f, line_prefix)
             r3 == write_helper(self.args[i], note(r2.f, "arg", self, args),
                                with_depth(args, new_depth))
         IN IF r3.ok THEN write_rest_unchecked(self, i + 1, r3.f, args) ELSE r3

\* for sexpr in subformula_iter { write!(f, "{}{}", sep, line_prefix)?; ... }
\* (each r is a fmt::Result; a failed one is returned as it is, which is the ?)
write_rest(self, i, f, args) ==
    IF i > Len(self.args) THEN FmtOk(f)
    ELSE LET inline == self.complexity <= args.complexity_threshold
             new_depth == IF inline THEN 0 ELSE args.depth + 4
             sep == IF inline THEN <<" ">> ELSE <<"\n", " ", " ", " ", " ">>
             line_prefix == IF inline THEN <<>> ELSE tab(args)
             r1 == write_str(f, sep)
             r2 == IF r1.ok THEN write_str(r1.f, line_prefix) ELSE r1
             r3 == IF r2.ok
                   THEN write_helper(self.args[i], note(r2.f, "arg", self, args),
                                     with_depth(args, new_depth))
                   ELSE r2
         IN IF r3.ok THEN write_rest(self, i + 1, r3.f, args) ELSE r3

write_helper(self, f, args) ==
    IF self.kind = "Atom" THEN write_str(f, self.text)
    ELSE LET head == self.head
             subformulas == self.args
             glued == glues_first(args, head) /\ Len(subformulas) > 0
             \* write!(f, "({}", head)?;
             r1 == write_str(note(f, "open", self, args), <<"(">>)
             r2 == IF r1.ok THEN fmt(head, r1.f) ELSE r1
             \* write!(f, " ")?; sexpr.write_helper(f, args)?;
             r3 == IF r2.ok /\ glued THEN write_str(r2.f, <<" ">>) ELSE r2
             r4 == IF r3.ok /\ glued
                   THEN write_helper(subformulas[1], note(r3.f, "glue", self, args),
                                     args)
                   ELSE r3
             r5 == IF r4.ok
                   THEN write_rest(self, IF glued THEN 2 ELSE 1, r4.f, args)
                   ELSE r4
             \* write!(f, "\n{}", tab)?; only in multiline mode
             multiline == self.complexity > args.complexity_threshold
             r6 == IF r5.ok /\ multiline THEN write_str(r5.f, <<"\n">>) ELSE r5
             r7 == IF r6.ok /\ multiline THEN write_str(r6.f, tab(args)) ELSE r6
         IN IF r7.ok THEN write_str(note(r7.f, "close", self, args), <<")">>) ELSE r7

\* Sexpr::pretty_print, on a sink that rejects write number fail_at
pretty_print(self, cmd_args, fail_at) ==
    write_helper(self, ToWriteFmt(fail_at), FormatArgs_from(cmd_args))

(***************************************************************************)
(* The inputs of the model.                                                *)
(***************************************************************************)
Pieces == {<<"(">>, <<")">>, <<" ">>, <<"a">>}

\* every text of at most n pieces
RECURSIVE RawTexts(_)
RawTexts(n) ==
    IF n = 0 THEN {<<>>}
    ELSE LET S == RawTexts(n - 1) IN S \cup {s \o p : s \in S, p \in Pieces}

HeadAtoms == {<<"a">>, Str_forall, Str_exists}
ArgAtoms == {<<"a">>}

\* every single-spaced well-formed text of exactly n nodes
RECURSIVE ExprTexts(_, _)
RECURSIVE ArgTexts(_)
ExprTexts(n, is_head) ==
    IF n = 1 THEN (IF is_head THEN HeadAtoms ELSE ArgAtoms)
    ELSE UNION {{<<"(">> \o h \o a \o <<")">> :
                    h \in ExprTexts(k, TRUE), a \in ArgTexts(n - 1 - k)} :
                k \in 1..(n - 1)}
ArgTexts(m) ==
    IF m = 0 THEN {<<>>}
    ELSE UNION {{<<" ">> \o e \o r : e \in ExprTexts(k, FALSE), r \in ArgTexts(m - k)} :
                k \in 1..m}

\* "(a (b c) (d (e f)))"
Example_nested ==
    <<"(", "a", " ", "(", "b", " ", "c", ")", " ",
      "(", "d", " ", "(", "e", " ", "f", ")", ")", ")">>
\* "(a b c)"
Example_flat == <<"(", "a", " ", "b", " ", "c", ")">>
\* "((a (a a)) a)"
Example_compound_head ==
    <<"(", "(", "a", " ", "(", "a", " ", "a", ")", ")", " ", "a", ")">>
\* "(a (a (a a)))"
Example_deep ==
    <<"(", "a", " ", "(", "a", " ", "(", "a", " ", "a", ")", ")", ")">>
\* "(exists a (a a))"
Example_exists ==
    <<"(">> \o Str_exists \o <<" ", "a", " ", "(", "a", " ", "a", ")", ")">>
\* "(forall a (a a))"
Example_forall ==
    <<"(">> \o Str_forall \o <<" ", "a", " ", "(", "a", " ", "a", ")", ")">>
\* "(forall (a (a a)) a)"
Example_binder ==
    <<"(">> \o Str_forall
        \o <<" ", "(", "a", " ", "(", "a", " ", "a", ")", ")", " ", "a", ")">>
\* "(a ())"
Example_empty_parens == <<"(", "a", " ", "(", ")", ")">>
\* " (a\n b) "
Example_spaced == <<" ", "(", "a", "\n", " ", "b", ")", " ">>
\* the one character U+00E9
Example_accent == <<"C3", "A9">>
\* "(a b" and U+00E9 and ")"
Example_accent_inside == <<"(", "a", " ", "b", "C3", "A9", ")">>
\* "a) " and U+00E9
Example_accent_unread == <<"a", ")", " ", "C3", "A9">>

Examples ==
    {Example_nested, Example_flat, Example_compound_head, Example_deep, Example_exists,
     Example_forall, Example_binder, Example_empty_parens, Example_spaced,
     Example_accent, Example_accent_inside, Example_accent_unread}

Inputs ==
    RawTexts(MaxLen) \cup UNION {ExprTexts(n, TRUE) : n \in 1..MaxNodes} \cup Examples

CmdArgs ==
    [complexity_threshold : 0..MaxThreshold, short_quantifiers : BOOLEAN]

(***************************************************************************)
(* The driver: main parses the input that read_input returned and          *)
(* pretty-prints the tree.  A second run formats the output of the first   *)
(* with the same command line.                                             *)
(***************************************************************************)
VARIABLES pc, run, cmd_args, input, sexpr, err, f, first

vars == <<pc, run, cmd_args, input, sexpr, err, f, first>>

NoTree == [kind |-> "None"]

Init ==
    /\ pc = "read"
    /\ run = 1
    /\ cmd_args \in CmdArgs
    /\ input \in Inputs
    /\ sexpr = NoTree
    /\ err = ""
    /\ f = ToWriteFmt(0)
    /\ first = [out |-> <<>>, sexpr |-> NoTree]

\* let sexpr = Sexpr::parse(&input)?;
Parse ==
    /\ pc = "read"
    /\ LET r == parse(input) IN
       IF r.ok
       THEN /\ sexpr' = r.sexpr
            /\ pc' = "parsed"
            /\ err' = err
       ELSE /\ err' = r.err
            /\ pc' = IF r.err = Panic THEN "panicked" ELSE "parse_error"
            /\ sexpr' = sexpr
    /\ UNCHANGED <<run, cmd_args, input, f, first>>

\* sexpr.pretty_print(&cmd_args)?;
PrettyPrint ==
    /\ pc = "parsed"
    /\ \E fail_at \in 0..MaxFailAt :
          LET r == pretty_print(sexpr, cmd_args, fail_at) IN
          /\ f' = r.f
          /\ pc' = IF r.ok THEN "done" ELSE "io_error"
    /\ UNCHANGED <<run, cmd_args, input, sexpr, err, first>>

\* the program is run again on its own output
Rerun ==
    /\ pc = "done"
    /\ run = 1
    /\ run' = 2
    /\ input' = f.out
    /\ first' = [out |-> f.out, sexpr |-> sexpr]
    /\ pc' = "read"
    /\ sexpr' = NoTree
    /\ f' = ToWriteFmt(0)
    /\ UNCHANGED <<cmd_args, err>>

Next == Parse \/ PrettyPrint \/ Rerun

Spec == Init /\ [][Next]_vars

(***************************************************************************)
(* Definitions used to state the properties.                               *)
(***************************************************************************)
RECURSIVE SubTrees(_)
SubTrees(t) ==
    IF t.kind = "Compound"
    THEN {t} \cup SubTrees(t.head)
             \cup UNION {SubTrees(t.args[i]) : i \in 1..Len(t.args)}
    ELSE {t}

Compounds(t) == {n \in SubTrees(t) : n.kind = "Compound"}

Parsed == sexpr.kind # "None"

SetMax(S) == CHOOSE x \in S : \A y \in S : y <= x
SetMin(S) == CHOOSE x \in S : \A y \in S : x <= y

RECURSIVE Flatten(_)
Flatten(ss) == IF ss = <<>> THEN <<>> ELSE Head(ss) \o Flatten(Tail(ss))

Spaces(n) == [i \in 1..n |-> " "]

Events(ev) == {f.log[i] : i \in {j \in 1..Len(f.log) : f.log[j].ev = ev}}

(***************************************************************************)
(* The reference lexer and the paren balance, written without the parser.  *)
(***************************************************************************)
IsDelimiter(ch) == ch \in {"(", ")", " ", "\n", "\t"}

\* the text between the first and the last non-whitespace character
Stripped(s) ==
    LET solid == {i \in 1..Len(s) : s[i] \notin {" ", "\n", "\t"}} IN
    IF solid = {} THEN <<>> ELSE SubSeq(s, SetMin(solid), SetMax(solid))

\* the number of compounds open after the first i characters
Depth(s, i) ==
    Cardinality({j \in 1..i : s[j] = "("}) - Cardinality({j \in 1..i : s[j] = ")"})

\* the text ends inside the compound it starts with
OpenAtEnd(s) ==
    /\ s # <<>>
    /\ s[1] = "("
    /\ \A i \in 1..Len(s) : Depth(s, i) >= 1

\* a complete first expression with more text after it
TrailingText(s) ==
    /\ s # <<>>
    /\ \/ s[1] = "(" /\ \E i \in 1..(Len(s) - 1) : Depth(s, i) = 0
       \/ s[1] \notin {"(", ")"} /\ \E i \in 1..Len(s) : IsDelimiter(s[i])

RECURSIVE TextTokens(_)
TextTokens(s) ==
    IF s = <<>> THEN <<>>
    ELSE IF s[1] \in {" ", "\n", "\t"} THEN TextTokens(Tail(s))
    ELSE IF s[1] \in {"(", ")"} THEN <<<<s[1]>>>> \o TextTokens(Tail(s))
    ELSE LET n == SetMin({i \in 1..Len(s) : IsDelimiter(s[i])} \cup {Len(s) + 1}) - 1
         IN <<SubSeq(s, 1, n)>> \o TextTokens(SubSeq(s, n + 1, Len(s)))

RECURSIVE TreeTokens(_)
TreeTokens(t) ==
    IF t.kind = "Atom" THEN (IF t.text = <<>> THEN <<>> ELSE <<t.text>>)
    ELSE <<<<"(">>>> \o TreeTokens(t.head)
             \o Flatten([i \in 1..Len(t.args) |-> TreeTokens(t.args[i])])
             \o <<<<")">>>>

(***************************************************************************)
(* What parse returns, by the paren balance of the stripped input: a tree  *)
(* that accounts for every token of the input, or one error and no tree;   *)
(* UnterminatedCompound when the text ends inside the compound it starts   *)
(* with, UnclosedInput when a complete first expression is followed by     *)
(* more text; whitespace around a single complete expression is never an   *)
(* error.                                                                  *)
(***************************************************************************)
Classified ==
    LET s == Stripped(input) IN
    /\ pc = "parsed" => err = "" /\ TreeTokens(sexpr) = TextTokens(input)
    /\ pc = "parse_error" =>
          /\ sexpr = NoTree
          /\ err \in {UnclosedInput, UnterminatedCompound, MalformedCompound}
    /\ OpenAtEnd(s) => pc = "parse_error" /\ err = UnterminatedCompound
    /\ TrailingText(s) => pc = "parse_error" /\ err = UnclosedInput
    /\ (~OpenAtEnd(s) /\ ~TrailingText(s) /\ (s = <<>> \/ s[1] # ")"))
          => pc = "parsed"

(***************************************************************************)
(* C5.  For every input parse returns one tree or exactly one error (it    *)
(* does not end in any other way) and never a partial tree, and the error  *)
(* is UnterminatedCompound or UnclosedInput as the input's shape says.     *)
(***************************************************************************)
C5_AllOrNothing ==
    pc \in {"parsed", "parse_error", "panicked"} =>
        /\ pc # "panicked"
        /\ Classified

(***************************************************************************)
(* What the code does instead: parse returns as stated on every input      *)
(* whose characters are all one byte long, and panics only on an input     *)
(* with a longer character.                                                *)
(***************************************************************************)
IsAscii(s) == \A i \in 1..Len(s) : s[i] \notin {"C3", "A9"}

ClassifiedUnlessPanic ==
    /\ (pc \in {"parsed", "parse_error"} /\ IsAscii(input)) => Classified
    /\ pc = "panicked" => ~IsAscii(input) /\ sexpr = NoTree

(***************************************************************************)
(* C6.  No Compound of a parsed tree has the blank sentinel as its head    *)
(* or among its arguments.                                                 *)
(***************************************************************************)
C6_NoBlank ==
    Parsed =>
        \A n \in Compounds(sexpr) :
            /\ ~is_blank(n.head)
            /\ \A i \in 1..Len(n.args) : ~is_blank(n.args[i])

(***************************************************************************)
(* C8.  Every node of a parsed tree carries the reference complexity: 0    *)
(* for an Atom, 1 + the maximum over head and arguments for a Compound;    *)
(* so a child's complexity is below its parent's, "(a b c)" has 1 and      *)
(* "(a (b c) (d (e f)))" has 3, with (d (e f)) = 2 and (b c) = (e f) = 1.  *)
(***************************************************************************)
RECURSIVE RefComplexity(_)
RefComplexity(t) ==
    IF t.kind = "Atom" THEN 0
    ELSE 1 + SetMax({RefComplexity(t.head)}
                      \cup {RefComplexity(t.args[i]) : i \in 1..Len(t.args)})

C8_Complexity ==
    Parsed =>
        /\ \A n \in SubTrees(sexpr) : n.complexity = RefComplexity(n)
        /\ \A n \in Compounds(sexpr) :
              /\ n.head.complexity < n.complexity
              /\ \A i \in 1..Len(n.args) : n.args[i].complexity < n.complexity
        /\ input = Example_flat => sexpr.complexity = 1
        /\ input = Example_nested =>
              /\ sexpr.complexity = 3
              /\ sexpr.args[1].complexity = 1
              /\ sexpr.args[2].complexity = 2
              /\ sexpr.args[2].args[1].complexity = 1

C8_Witness ==
    /\ pc = "parsed"
    /\ input = Example_nested
    /\ sexpr.complexity = 3
    /\ sexpr.args[2].complexity = 2

(***************************************************************************)
(* C10.  parse never returns MalformedCompound nor "unexpected end of      *)
(* input": an argument loop that stops before the end of the text stops in *)
(* front of a closing paren, so the only errors parse returns are          *)
(* UnclosedInput and UnterminatedCompound.                                 *)
(***************************************************************************)
C10_MalformedUnreachable ==
    /\ err \notin {MalformedCompound, UnexpectedEnd}
    /\ pc = "parse_error" => err \in {UnclosedInput, UnterminatedCompound}

\* "(a ) a": the argument loop stops in front of ") a", and parse fails
C10_Witness ==
    /\ pc = "parse_error"
    /\ input = <<"(", "a", " ", ")", " ", "a">>
    /\ err = UnclosedInput

(***************************************************************************)
(* Definitions on the output text.                                         *)
(***************************************************************************)
HasNewline(s) == \E i \in 1..Len(s) : s[i] = "\n"

IsPrefix(s, t) == Len(s) <= Len(t) /\ SubSeq(t, 1, Len(s)) = s

\* the n characters before position pos (the last one written) are spaces,
\* and a newline stands before them
AfterNewlineAndSpaces(s, pos, n) ==
    /\ pos > n
    /\ s[pos - n] = "\n"
    /\ \A i \in (pos - n + 1)..pos : s[i] = " "

HeadIsQuantifier(n) == is_named(n.head, Str_forall) \/ is_named(n.head, Str_exists)

AtomHeaded(t) == \A n \in Compounds(t) : n.head.kind = "Atom"

\* no Compound of t has its first argument put on the head's line
NothingGlued(t) ==
    \A n \in Compounds(t) : Len(n.args) > 0 => ~glues_first(FormatArgs_from(cmd_args), n.head)

\* the layout by columns: under k multiline ancestors the arguments of a
\* multiline Compound start at column 4(k+1) and its closing paren at 4k
RECURSIVE ColumnLayout(_, _)
ColumnLayout(t, k) ==
    IF t.kind = "Atom" THEN t.text
    ELSE IF t.complexity <= cmd_args.complexity_threshold
    THEN <<"(">> \o t.head.text
            \o Flatten([i \in 1..Len(t.args) |-> <<" ">> \o ColumnLayout(t.args[i], k)])
            \o <<")">>
    ELSE <<"(">> \o t.head.text
            \o Flatten([i \in 1..Len(t.args) |->
                   <<"\n">> \o Spaces(4 * (k + 1)) \o ColumnLayout(t.args[i], k + 1)])
            \o <<"\n">> \o Spaces(4 * k) \o <<")">>

(***************************************************************************)
(* C1.  Every Compound of the tree, one in head position included, is laid *)
(* out inline iff its own complexity is at most the threshold of the       *)
(* config; so a tree with complexity at most the threshold is rendered     *)
(* without a newline.                                                      *)
(***************************************************************************)
C1_OwnComplexityDecides ==
    pc = "done" =>
        /\ \A e \in Events("open") :
              e.inline <=> e.node.complexity <= cmd_args.complexity_threshold
        /\ sexpr.complexity <= cmd_args.complexity_threshold => ~HasNewline(f.out)

(***************************************************************************)
(* C2.  A multiline Compound with an atom head and an argument has its     *)
(* first argument on the head's line exactly when short_quantifiers is set *)
(* and the head is forall or exists; otherwise the first argument starts a *)
(* new line.                                                               *)
(***************************************************************************)
C2_CompactionOnlyWhenSet ==
    pc = "done" =>
        \A e \in Events("open") :
            (~e.inline /\ e.node.head.kind = "Atom" /\ Len(e.node.args) > 0) =>
                LET after_head == f.out[e.pos + 2 + Len(e.node.head.text)] IN
                IF cmd_args.short_quantifiers /\ HeadIsQuantifier(e.node)
                THEN after_head = " "
                ELSE after_head = "\n"

(***************************************************************************)
(* The layout steps of a multiline Compound rendered at depth d: the head  *)
(* right after the opening paren, a newline and d + 4 spaces before every  *)
(* argument that is not glued, a newline and d spaces before the closing   *)
(* paren.                                                                  *)
(***************************************************************************)
MultilineSteps ==
    /\ \A e \in Events("open") :
          /\ f.out[e.pos + 1] = "("
          /\ (~e.inline /\ e.node.head.kind = "Atom") =>
                SubSeq(f.out, e.pos + 2, e.pos + 1 + Len(e.node.head.text))
                    = e.node.head.text
    /\ \A e \in Events("arg") :
          ~e.inline => AfterNewlineAndSpaces(f.out, e.pos, e.depth + 4)
    /\ \A e \in Events("close") :
          /\ f.out[e.pos + 1] = ")"
          /\ ~e.inline => AfterNewlineAndSpaces(f.out, e.pos, e.depth)

\* the depth at which the Compound that starts at position pos is rendered
\* is d (nothing is said when no Compound starts there)
RenderedAtDepth(pos, d) == \A o \in Events("open") : o.pos = pos => o.depth = d

RootAtDepth0 == sexpr.kind = "Compound" => RenderedAtDepth(0, 0)

\* with atom heads and nothing glued the text is the layout by columns
ColumnsWhenPlain ==
    (AtomHeaded(sexpr) /\ NothingGlued(sexpr)) => f.out = ColumnLayout(sexpr, 0)

(***************************************************************************)
(* C3.  A multiline Compound rendered at depth d lays out its  *)
(* head, its unglued arguments and its closing paren as above, the root is *)
(* at depth 0 and EVERY argument of a multiline Compound at depth d is     *)
(* rendered at depth d + 4 (glued arguments are looked at only where       *)
(* short_quantifiers asks for the compaction); with atom heads and nothing *)
(* glued the columns are 4(k+1) and 4k.                                    *)
(***************************************************************************)
C3_EveryArgumentDeeper ==
    pc = "done" =>
        /\ MultilineSteps
        /\ RootAtDepth0
        /\ \A e \in Events("arg") :
              ~e.inline => RenderedAtDepth(e.pos, e.depth + 4)
        /\ \A e \in Events("glue") :
              (~e.inline /\ cmd_args.short_quantifiers)
                  => RenderedAtDepth(e.pos, e.depth + 4)
        /\ ColumnsWhenPlain

(***************************************************************************)
(* What the code does instead: only an argument that is not glued is       *)
(* rendered at depth d + 4; the first argument glued to a quantifier head  *)
(* is rendered at the depth d of the Compound itself.                      *)
(***************************************************************************)
GluedArgumentAtParentDepth ==
    pc = "done" =>
        /\ MultilineSteps
        /\ RootAtDepth0
        /\ \A e \in Events("arg") :
              ~e.inline => RenderedAtDepth(e.pos, e.depth + 4)
        /\ \A e \in Events("glue") : RenderedAtDepth(e.pos, e.depth)
        /\ ColumnsWhenPlain

(***************************************************************************)
(* C4.  "(a (b c) (d (e f)))" with threshold 1 and no short quantifiers.   *)
(* As claimed: the text "(a (b c)\n    (d (e f)))".                        *)
(***************************************************************************)
Text_claimed ==
    <<"(", "a", " ", "(", "b", " ", "c", ")", "\n",
      " ", " ", " ", " ", "(", "d", " ", "(", "e", " ", "f", ")", ")", ")">>

C4_TwoLineText ==
    (pc = "done" /\ input = Example_nested
        /\ cmd_args.complexity_threshold = 1 /\ ~cmd_args.short_quantifiers)
    => f.out = Text_claimed

(***************************************************************************)
(* C4, amended.  The outer node and (d (e f)) are multiline, (b c) and     *)
(* (e f) inline, and the text has six lines: every argument of a multiline *)
(* node on a line of its own and every closing paren of a multiline node   *)
(* on a line of its own, "(a\n    (b c)\n    (d\n        (e f)\n    )\n)". *)
(***************************************************************************)
Text_rendered ==
    <<"(", "a", "\n",
      " ", " ", " ", " ", "(", "b", " ", "c", ")", "\n",
      " ", " ", " ", " ", "(", "d", "\n",
      " ", " ", " ", " ", " ", " ", " ", " ", "(", "e", " ", "f", ")", "\n",
      " ", " ", " ", " ", ")", "\n",
      ")">>

C4_SixLineText ==
    (pc = "done" /\ input = Example_nested
        /\ cmd_args.complexity_threshold = 1 /\ ~cmd_args.short_quantifiers)
    => /\ f.out = Text_rendered
       /\ \A e \in Events("open") : e.inline <=> e.node.complexity = 1
       /\ {e.node.complexity : e \in Events("open")} = {1, 2, 3}

C4_Witness ==
    /\ pc = "done"
    /\ input = Example_nested
    /\ cmd_args.complexity_threshold = 1
    /\ ~cmd_args.short_quantifiers
    /\ Len(f.out) = Len(Text_rendered)

(***************************************************************************)
(* C7.  The rendered text parses, to a tree equal to the first one (atoms, *)
(* nesting and complexities), and rendering that tree with the same config *)
(* gives the same text again.                                              *)
(***************************************************************************)
C7_RenderIdempotent ==
    run = 2 =>
        /\ pc # "parse_error"
        /\ pc \in {"parsed", "done", "io_error"} => sexpr = first.sexpr
        /\ pc = "done" => f.out = first.out

\* a second run over a multiline text whose head is a Compound
C7_Witness ==
    /\ run = 2
    /\ pc = "done"
    /\ HasNewline(input)
    /\ sexpr.kind = "Compound"
    /\ sexpr.head.kind = "Compound"
    /\ f.out = input

(***************************************************************************)
(* C9.  A rejected write ends the rendering: no later write is attempted   *)
(* and pretty_print fails; when no write is rejected pretty_print succeeds *)
(* and the whole text is written.                                          *)
(***************************************************************************)
C9_AbortOnFailedWrite ==
    /\ pc = "io_error" =>
          /\ f.fail_at > 0
          /\ f.attempts = f.fail_at
          /\ IsPrefix(f.out, pretty_print(sexpr, cmd_args, 0).f.out)
          /\ f.out # pretty_print(sexpr, cmd_args, 0).f.out
    /\ pc = "done" =>
          /\ f.fail_at = 0 \/ f.attempts < f.fail_at
          /\ TextTokens(f.out) = TreeTokens(sexpr)

\* the third write is rejected inside the Display call for a Compound head
C9_Witness ==
    /\ pc = "io_error"
    /\ sexpr.kind = "Compound"
    /\ sexpr.head.kind = "Compound"
    /\ f.fail_at = 3
    /\ f.attempts = 3
    /\ f.out = <<"(", "(">>
====
